---- MODULE Spec2Model ----
(***************************************************************************)
(* WinBoat main process (src/main/main.ts): the window, the tray, the      *)
(* persisted window geometry and the handlers the file registers.          *)
(*                                                                         *)
(* One process of the application is modelled from launch to termination,  *)
(* and a later launch finds the settings file the earlier one left.  Each  *)
(* handler of main.ts is one action.  What Electron does between handlers  *)
(* (dispatch of the close event after app.quit(), shutdown after the last  *)
(* window closed, the return of app.exit() to its caller once the message  *)
(* loop runs) is part of the actions that model the calls.                 *)
(*                                                                         *)
(* Two handlers have no reachable effect and appear as follows.            *)
(*  - app.on("window-all-closed") (main.ts:239-241) is emitted by Electron *)
(*    only when the last window is gone while no quit is in progress; the  *)
(*    close handler lets the window go only after the tray Quit item set   *)
(*    isQuitting and called app.quit(), so the event is never emitted.     *)
(*    Its app.quit() is the same request as OnQuitRequest below.            *)
(*  - app.on("activate") recreates the window only with no window open,    *)
(*    which is the same unreachable situation; the action keeps the test.  *)
(***************************************************************************)
EXTENDS Integers, Sequences, FiniteSets, TLC

\* main.ts:11-12
WINDOW_MIN_WIDTH == 1280
WINDOW_MIN_HEIGHT == 800
\* recentApps.slice(0, 10), main.ts:78
RECENT_LIMIT == 10

\* Bounds of the model.
\* launches of the application
MaxRuns == 2
\* recentApps lists have 0..MaxShort or RECENT_LIMIT..MaxApps entries
MaxShort == 1
MaxApps == 11
\* a malformed list has its null element at index 1..MaxNullAt
MaxNullAt == 1

VARIABLES
    run,          \* which launch of the application this process is
    appState,     \* "starting" | "running" | "stopping" | "terminated"
    quitPending,  \* Electron: app.quit() asked, windows not yet all closed
    isQuitting,   \* main.ts:61
    mainWindow,   \* main.ts:59, the BrowserWindow with what the file sets on it
    tray,         \* main.ts:60, the Tray with what the file sets on it
    windowStore,  \* main.ts:26, the settings file's content
    dialog,       \* the message box this process has shown, "none" if none
    traysCreated, \* history: number of `new Tray` this process has run
    quitClicked,  \* history: the tray Quit item was clicked in this process
    closedAt,     \* history: the window's bounds at the last close that went through
    last          \* history: the handler that ran last and what it did

vars == <<run, appState, quitPending, isQuitting, mainWindow, tray, windowStore,
          dialog, traysCreated, quitClicked, closedAt, last>>

Min(a, b) == IF a < b THEN a ELSE b
Max(a, b) == IF a > b THEN a ELSE b

--------------------------------------------------------------------------
\* Window geometry.  A bounds value is <<width, height, x, y>>.

Sizes == {<<WINDOW_MIN_WIDTH, WINDOW_MIN_HEIGHT>>,
          <<WINDOW_MIN_WIDTH + 120, WINDOW_MIN_HEIGHT + 100>>}
Positions == {<<0, 0>>, <<40, 25>>}

\* A JavaScript value that may be undefined: <<>> is undefined, <<v>> is v.
Undefined == <<>>
Just(v) == <<v>>

\* The settings file: each key is absent (<<>>) or holds what set() gave it.
StoreStates ==
    {[dimensions |-> <<>>, position |-> <<>>]}
    \cup {[dimensions |-> s, position |-> p] : s \in Sizes, p \in Positions}

\* The settings file at the first launch modelled: never written, or left by
\* an earlier run of the application.
InitialStores ==
    {[dimensions |-> <<>>, position |-> <<>>],
     [dimensions |-> <<WINDOW_MIN_WIDTH + 120, WINDOW_MIN_HEIGHT + 100>>,
      position |-> <<40, 25>>]}

\* windowStore.get("dimensions.width") and its three siblings, main.ts:168-171.
\* The schema gives defaults only to properties of an object that is present,
\* so with the key absent the dotted path reads undefined.
StoreGet(store, key, i) ==
    IF store[key] = <<>> THEN Undefined ELSE Just(store[key][i])

\* windowStore.set("dimensions", ...) and set("position", ...), main.ts:190-198
StoreSetBounds(store, b) ==
    [store EXCEPT !.dimensions = <<b[1], b[2]>>, !.position = <<b[3], b[4]>>]

\* Mutant: y is read from position.x.
WindowOptions_YFromX(store) ==
    [width  |-> StoreGet(store, "dimensions", 1),
     height |-> StoreGet(store, "dimensions", 2),
     x      |-> StoreGet(store, "position", 1),
     y      |-> StoreGet(store, "position", 1)]

\* The options createWindow passes to new BrowserWindow, main.ts:165-171
WindowOptions(store) ==
    [width  |-> StoreGet(store, "dimensions", 1),
     height |-> StoreGet(store, "dimensions", 2),
     x      |-> StoreGet(store, "position", 1),
     y      |-> StoreGet(store, "position", 2)]

\* Electron: the bounds a new window gets from the options of main.ts:165-171.
\* An absent width or height is Electron's default (800, 600), which minWidth and
\* minHeight raise to the minimum; a position is used only when both x and y
\* are given, otherwise the window is centred (at `centre`).
InitialBounds(opt, centre) ==
    LET w == IF opt.width = Undefined THEN WINDOW_MIN_WIDTH ELSE opt.width[1]
        h == IF opt.height = Undefined THEN WINDOW_MIN_HEIGHT ELSE opt.height[1]
        placed == opt.x # Undefined /\ opt.y # Undefined
    IN  <<Max(w, WINDOW_MIN_WIDTH), Max(h, WINDOW_MIN_HEIGHT),
          IF placed THEN opt.x[1] ELSE centre[1],
          IF placed THEN opt.y[1] ELSE centre[2]>>

NullWindow ==
    [state |-> "null", bounds |-> <<>>, options |-> <<>>,
     closeHandler |-> FALSE, loading |-> FALSE]

\* mainWindow = new BrowserWindow({...}); mainWindow.on("close", ...);
\* mainWindow.loadURL / loadFile: main.ts:165-208
NewMainWindow(store, centre) ==
    [state |-> "shown",
     bounds |-> InitialBounds(WindowOptions(store), centre),
     options |-> <<WindowOptions(store)>>,
     closeHandler |-> TRUE,
     loading |-> TRUE]

WindowAlive == mainWindow.state \in {"shown", "hidden"}

--------------------------------------------------------------------------
\* What the last step did.

Quiet(event) ==
    [event |-> event, config |-> <<>>, icons |-> <<>>, threw |-> FALSE,
     storeAccess |-> "none", sent |-> <<>>, prevented |-> FALSE]

--------------------------------------------------------------------------
\* The config file ~/.winboat/winboat.config.json as updateTrayMenu finds it.
\*   missing     fs.existsSync is false
\*   unreadable  fs.readFileSync throws
\*   badJSON     JSON.parse throws
\*   null        the JSON text is null: reading .recentApps of it throws
\*   noField     an object without recentApps
\*   falsy       recentApps is null, 0, "" or false
\*   number      recentApps is a number other than 0
\*   string      recentApps is a non-empty string
\*   list        recentApps is an array; an element is {name} or null

AppName(i) == "app" \o ToString(i)
AppEntry(i) == [isNull |-> FALSE, name |-> AppName(i)]
NullEntry == [isNull |-> TRUE, name |-> ""]

AppList(n) == [i \in 1..n |-> AppEntry(i)]
\* n entries, the one at index `at` being null
AppListWithNull(n, at) == [i \in 1..n |-> IF i = at THEN NullEntry ELSE AppEntry(i)]

Config(kind, apps) == [kind |-> kind, apps |-> apps]

ListLengths == (0..MaxShort) \cup (RECENT_LIMIT..MaxApps)
WellFormedConfigs == {Config("list", AppList(n)) : n \in ListLengths}
UnusableConfigs ==
    {Config(k, <<>>) : k \in {"missing", "unreadable", "badJSON", "null"}}
AbsentConfigs == {Config(k, <<>>) : k \in {"noField", "falsy"}}
MalformedConfigs ==
    {Config(k, <<>>) : k \in {"number", "string"}}
    \cup {Config("list", AppListWithNull(at, at)) : at \in 1..MaxNullAt}
Configs ==
    WellFormedConfigs \cup UnusableConfigs \cup AbsentConfigs \cup MalformedConfigs

\* JavaScript values of the recentApps variable: an array, or something else.
JsArray(items) == [type |-> "array", items |-> items]
JsOther(type) == [type |-> type, items |-> <<>>]

\* main.ts:68-76: the try block.  Every throw inside it is caught, and leaves
\* recentApps at its initial [].  `config.recentApps || []` keeps any truthy
\* value, whatever its type.
ReadRecentApps(cfg) ==
    CASE cfg.kind \in {"missing", "unreadable", "badJSON", "null"} -> JsArray(<<>>)
      [] cfg.kind \in {"noField", "falsy"} -> JsArray(<<>>)
      [] cfg.kind = "list" -> JsArray(cfg.apps)
      [] OTHER -> JsOther(cfg.kind)

\* Mutant: the list is not cut.
SliceRecent_NoLimit(items) == items

\* recentApps.slice(0, 10), main.ts:78
SliceRecent(items) == SubSeq(items, 1, Min(Len(items), RECENT_LIMIT))

\* main.ts:78-84, outside the try block: whether slice(...).map(...) throws.
\* A number has no slice, a string's slice has no map, and the map callback
\* reads .name of each element, which throws on null.
RecentThrows(value) ==
    \/ value.type # "array"
    \/ \E i \in 1..Len(SliceRecent(value.items)) : SliceRecent(value.items)[i].isNull

MenuItem(label, enabled) == [label |-> label, enabled |-> enabled]

\* main.ts:78-84 for an array without null elements
RecentAppsMenu(items) ==
    [i \in 1..Len(SliceRecent(items)) |-> MenuItem(SliceRecent(items)[i].name, TRUE)]

NoRecentApps == <<MenuItem("No recent apps", FALSE)>>

\* main.ts:104-107
RecentSubmenu(items) ==
    IF Len(RecentAppsMenu(items)) > 0 THEN RecentAppsMenu(items) ELSE NoRecentApps

\* Menu.buildFromTemplate([...]), main.ts:86-119, separators left out
ContextMenu(items) ==
    [items |-> <<MenuItem("WinBoat", FALSE), MenuItem("Open Apps", TRUE),
                 MenuItem("Open Configuration", TRUE), MenuItem("Recent Apps", TRUE),
                 MenuItem("Run Container", TRUE), MenuItem("Pause Container", TRUE),
                 MenuItem("Quit", TRUE)>>,
     recent |-> RecentSubmenu(items)]

NullTray ==
    [exists |-> FALSE, icon |-> "none", menu |-> <<>>,
     clickHandler |-> FALSE, toolTip |-> ""]

\* updateTrayMenu(), main.ts:65-122, on tray value t: the tray afterwards.
\* Without a tray it returns at once; when building the menu throws,
\* tray.setContextMenu is not reached.
updateTrayMenu(t, cfg) ==
    IF ~t.exists \/ RecentThrows(ReadRecentApps(cfg))
    THEN t
    ELSE [t EXCEPT !.menu = <<ContextMenu(ReadRecentApps(cfg).items)>>]

\* Whether that call of updateTrayMenu ends in an exception nothing catches.
updateTrayMenuThrows(t, cfg) ==
    t.exists /\ RecentThrows(ReadRecentApps(cfg))

\* createTray(), main.ts:124-141, up to the call of updateTrayMenu: the logo
\* path is the PNG if it exists and the SVG otherwise, whether or not the SVG
\* exists; nativeImage.createFromPath of a missing file is an empty image and
\* new Tray accepts it.
TrayIcon(files) ==
    IF "png" \in files THEN "png" ELSE IF "svg" \in files THEN "svg" ELSE "empty"

NewTray(files) ==
    [exists |-> TRUE, icon |-> TrayIcon(files), menu |-> <<>>,
     clickHandler |-> FALSE, toolTip |-> ""]

\* Mutant: without a logo file no tray is created.
createTray_RequiresIcon(files, cfg) ==
    IF files = {}
    THEN NullTray
    ELSE IF updateTrayMenuThrows(NewTray(files), cfg)
         THEN NewTray(files)
         ELSE [updateTrayMenu(NewTray(files), cfg) EXCEPT
                   !.clickHandler = TRUE, !.toolTip = "WinBoat"]

\* createTray(), main.ts:124-151: the tray afterwards.  When updateTrayMenu
\* throws, the exception leaves createTray too, after `tray` was assigned and
\* before the click handler and the tool tip are set.
createTray(files, cfg) ==
    IF updateTrayMenuThrows(NewTray(files), cfg)
    THEN NewTray(files)
    ELSE [updateTrayMenu(NewTray(files), cfg) EXCEPT
              !.clickHandler = TRUE, !.toolTip = "WinBoat"]

\* mainWindow.show() / mainWindow?.show()
Show(w) == IF w.state \in {"shown", "hidden"} THEN [w EXCEPT !.state = "shown"] ELSE w

\* mainWindow?.hide(), main.ts:184
Hide(w) == IF w.state \in {"shown", "hidden"} THEN [w EXCEPT !.state = "hidden"] ELSE w

\* Mutant: the close is never prevented.
ClosePrevented_Never(quitting) == FALSE

\* The close handler's test, main.ts:182: the close is prevented.
ClosePrevented(quitting) == ~quitting

\* The close handler's writes, main.ts:188-198
StoreOnClose(store, w) == StoreSetBounds(store, w.bounds)

--------------------------------------------------------------------------

Init ==
    /\ run = 1
    /\ appState = "starting"
    /\ quitPending = FALSE
    /\ isQuitting = FALSE
    /\ mainWindow = NullWindow
    /\ tray = NullTray
    /\ windowStore \in InitialStores
    /\ dialog = "none"
    /\ traysCreated = 0
    /\ quitClicked = FALSE
    /\ closedAt = <<>>
    /\ last = Quiet("launch")

Running == appState = "running"

\* createWindow(), main.ts:153-209.  app.exit() is called with the message loop
\* running (inside whenReady) and with no window open: Electron records the
\* exit code, asks the loop to stop and returns, so the statements after the
\* if block run before the process ends.
createWindow(gotLock, centre, event) ==
    /\ dialog' = IF gotLock THEN dialog ELSE "already-running"
    /\ appState' = IF gotLock THEN "running" ELSE "stopping"
    /\ mainWindow' = NewMainWindow(windowStore, centre)
    /\ last' = [Quiet(event) EXCEPT !.storeAccess = "read"]
    /\ UNCHANGED <<run, quitPending, isQuitting, tray, windowStore,
                   traysCreated, quitClicked, closedAt>>

\* app.whenReady().then(...), main.ts:211-237.  Whether this process gets the
\* single-instance lock depends on another instance running.
Ready ==
    /\ appState = "starting"
    /\ \E gotLock \in BOOLEAN, centre \in Positions :
           createWindow(gotLock, centre, "ready")

\* app.on("activate"), main.ts:230-236.  The process holds the lock already.
Activate ==
    /\ Running
    /\ IF mainWindow.state \in {"null", "destroyed"}
       THEN \E centre \in Positions : createWindow(TRUE, centre, "activate")
       ELSE /\ last' = Quiet("activate")
            /\ UNCHANGED <<run, appState, quitPending, isQuitting, mainWindow, tray,
                           windowStore, dialog, traysCreated, quitClicked, closedAt>>

\* app.on("second-instance"), main.ts:243-247: focus() changes nothing modelled.
SecondInstance ==
    /\ Running
    /\ last' = Quiet("second-instance")
    /\ UNCHANGED <<run, appState, quitPending, isQuitting, mainWindow, tray,
                   windowStore, dialog, traysCreated, quitClicked, closedAt>>

\* ipcMain.on("message"), main.ts:249-251
OnMessage ==
    /\ Running
    /\ last' = Quiet("message")
    /\ UNCHANGED <<run, appState, quitPending, isQuitting, mainWindow, tray,
                   windowStore, dialog, traysCreated, quitClicked, closedAt>>

\* ipcMain.on("update-tray"), main.ts:253-255
OnUpdateTray ==
    /\ Running
    /\ \E cfg \in Configs :
        /\ tray' = updateTrayMenu(tray, cfg)
        /\ last' = [Quiet("update-tray") EXCEPT
                        !.config = IF tray.exists THEN <<cfg>> ELSE <<>>,
                        !.threw = updateTrayMenuThrows(tray, cfg)]
    /\ UNCHANGED <<run, appState, quitPending, isQuitting, mainWindow,
                   windowStore, dialog, traysCreated, quitClicked, closedAt>>

\* Mutant: the handler creates a tray whether or not one exists.
InitTrayCreates_Always(t) == TRUE

\* The test of the "init-tray" handler, main.ts:258
InitTrayCreates(t) == ~t.exists

\* ipcMain.on("init-tray"), main.ts:257-261
OnInitTray ==
    /\ Running
    /\ IF InitTrayCreates(tray)
       THEN \E files \in SUBSET {"png", "svg"}, cfg \in Configs :
              /\ tray' = createTray(files, cfg)
              /\ traysCreated' = traysCreated + 1
              /\ last' = [Quiet("init-tray") EXCEPT
                              !.config = <<cfg>>, !.icons = <<files>>,
                              !.threw = updateTrayMenuThrows(NewTray(files), cfg)]
       ELSE /\ last' = Quiet("init-tray")
            /\ UNCHANGED <<tray, traysCreated>>
    /\ UNCHANGED <<run, appState, quitPending, isQuitting, mainWindow,
                   windowStore, dialog, quitClicked, closedAt>>

\* tray.on("click"), main.ts:143-148
OnTrayClick ==
    /\ Running
    /\ tray.exists /\ tray.clickHandler
    /\ mainWindow' = IF mainWindow.state # "null" THEN Show(mainWindow) ELSE mainWindow
    /\ last' = Quiet("tray-click")
    /\ UNCHANGED <<run, appState, quitPending, isQuitting, tray, windowStore,
                   dialog, traysCreated, quitClicked, closedAt>>

HasMenu == tray.exists /\ tray.menu # <<>>

\* "Open Apps" and "Open Configuration", main.ts:89-102
OnMenuOpen ==
    /\ Running /\ HasMenu
    /\ \E path \in {"/apps", "/config"} :
        last' = [Quiet("menu-open") EXCEPT !.sent = <<"navigate", path>>]
    /\ mainWindow' = Show(mainWindow)
    /\ UNCHANGED <<run, appState, quitPending, isQuitting, tray, windowStore,
                   dialog, traysCreated, quitClicked, closedAt>>

\* An entry of the "Recent Apps" submenu, main.ts:78-84
OnMenuRecent ==
    /\ Running /\ HasMenu
    /\ \E i \in 1..Len(tray.menu[1].recent) :
        /\ tray.menu[1].recent[i].enabled
        /\ last' = [Quiet("menu-recent") EXCEPT
                        !.sent = <<"launch-app-by-name", tray.menu[1].recent[i].label>>]
    /\ mainWindow' = Show(mainWindow)
    /\ UNCHANGED <<run, appState, quitPending, isQuitting, tray, windowStore,
                   dialog, traysCreated, quitClicked, closedAt>>

\* "Run Container" and "Pause Container", main.ts:109-110
OnMenuContainer ==
    /\ Running /\ HasMenu
    /\ \E action \in {"start", "pause"} :
        last' = [Quiet("menu-container") EXCEPT !.sent = <<"container-action", action>>]
    /\ UNCHANGED <<run, appState, quitPending, isQuitting, mainWindow, tray,
                   windowStore, dialog, traysCreated, quitClicked, closedAt>>

\* Mutant: the handler calls app.quit() without setting isQuitting.
QuitClickSetsQuitting_Keeps(q) == q

\* Mutant: the handler saves the window's bounds itself.
QuitClickStore_SavesBounds(store, w) == StoreSetBounds(store, w.bounds)

\* The click handler of "Quit", main.ts:112-118: isQuitting after it.
QuitClickSetsQuitting(q) == TRUE

\* The click handler of "Quit", main.ts:112-118: the settings file after it.
QuitClickStore(store, w) == store

\* "Quit", main.ts:112-118.  app.quit() starts Electron's quit: it will ask
\* every window to close.
OnMenuQuit ==
    /\ Running /\ HasMenu
    /\ isQuitting' = QuitClickSetsQuitting(isQuitting)
    /\ quitPending' = TRUE
    /\ quitClicked' = TRUE
    /\ windowStore' = QuitClickStore(windowStore, mainWindow)
    /\ last' = [Quiet("menu-quit") EXCEPT
                    !.storeAccess = IF windowStore' # windowStore THEN "write" ELSE "none"]
    /\ UNCHANGED <<run, appState, mainWindow, tray, dialog, traysCreated, closedAt>>

\* app.quit() asked for by anything but the tray "Quit" item: the system (the
\* dock menu, the end of the session), the renderer through @electron/remote,
\* or the window-all-closed handler, main.ts:239-241.
OnQuitRequest ==
    /\ Running
    /\ ~quitPending
    /\ quitPending' = TRUE
    /\ last' = Quiet("quit-request")
    /\ UNCHANGED <<run, appState, isQuitting, mainWindow, tray, windowStore,
                   dialog, traysCreated, quitClicked, closedAt>>

\* isQuitting is set only together with app.quit(), and a quit in progress is
\* cancelled only by a prevented close, which needs isQuitting false.
QuitInProgressWhenQuitting == isQuitting /\ Running => quitPending

\* mainWindow.on("close"), main.ts:181-199, and what Electron does with the
\* outcome: a prevented close cancels a quit in progress; a close that goes
\* through destroys the window, and with the last window gone the quit in
\* progress (QuitInProgressWhenQuitting) shuts the application down.
\* `mainWindow` keeps the reference to the destroyed window.
OnClose(event) ==
    /\ IF ClosePrevented(isQuitting)
       THEN /\ mainWindow' = Hide(mainWindow)
            /\ quitPending' = FALSE
            /\ last' = [Quiet(event) EXCEPT !.prevented = TRUE]
            /\ UNCHANGED <<windowStore, closedAt, appState>>
       ELSE /\ windowStore' = StoreOnClose(windowStore, mainWindow)
            /\ mainWindow' = [mainWindow EXCEPT !.state = "destroyed"]
            /\ closedAt' = mainWindow.bounds
            /\ appState' = "stopping"
            /\ last' = [Quiet(event) EXCEPT !.storeAccess = "write"]
            /\ UNCHANGED quitPending
    /\ UNCHANGED <<run, isQuitting, tray, dialog, traysCreated, quitClicked>>

\* The user closes the window (window manager, or the renderer's close button).
UserClose ==
    /\ Running
    /\ mainWindow.state = "shown"
    /\ OnClose("close")

\* Electron asks the window to close because a quit is in progress.
QuitClose ==
    /\ Running
    /\ quitPending
    /\ WindowAlive
    /\ OnClose("close")

\* The user resizes or moves the visible window.
Resize ==
    /\ Running
    /\ mainWindow.state = "shown"
    /\ \E s \in Sizes :
        /\ <<s[1], s[2]>> # <<mainWindow.bounds[1], mainWindow.bounds[2]>>
        /\ mainWindow' = [mainWindow EXCEPT !.bounds = <<s[1], s[2], @[3], @[4]>>]
    /\ last' = Quiet("resize")
    /\ UNCHANGED <<run, appState, quitPending, isQuitting, tray, windowStore,
                   dialog, traysCreated, quitClicked, closedAt>>

Move ==
    /\ Running
    /\ mainWindow.state = "shown"
    /\ \E p \in Positions :
        /\ <<p[1], p[2]>> # <<mainWindow.bounds[3], mainWindow.bounds[4]>>
        /\ mainWindow' = [mainWindow EXCEPT !.bounds = <<@[1], @[2], p[1], p[2]>>]
    /\ last' = Quiet("move")
    /\ UNCHANGED <<run, appState, quitPending, isQuitting, tray, windowStore,
                   dialog, traysCreated, quitClicked, closedAt>>

\* The message loop has stopped: the process ends.
Terminate ==
    /\ appState = "stopping"
    /\ appState' = "terminated"
    /\ last' = Quiet("exit")
    /\ UNCHANGED <<run, quitPending, isQuitting, mainWindow, tray, windowStore,
                   dialog, traysCreated, quitClicked, closedAt>>

\* The application is launched again: a new process, main.ts:59-61, with the
\* settings file as the earlier process left it.
Relaunch ==
    /\ appState = "terminated"
    /\ run < MaxRuns
    /\ run' = run + 1
    /\ appState' = "starting"
    /\ quitPending' = FALSE
    /\ isQuitting' = FALSE
    /\ mainWindow' = NullWindow
    /\ tray' = NullTray
    /\ dialog' = "none"
    /\ traysCreated' = 0
    /\ quitClicked' = FALSE
    /\ last' = Quiet("launch")
    /\ UNCHANGED <<windowStore, closedAt>>

Next ==
    \/ Ready
    \/ Activate
    \/ SecondInstance
    \/ OnMessage
    \/ OnUpdateTray
    \/ OnInitTray
    \/ OnTrayClick
    \/ OnMenuOpen
    \/ OnMenuRecent
    \/ OnMenuContainer
    \/ OnMenuQuit
    \/ OnQuitRequest
    \/ UserClose
    \/ QuitClose
    \/ Resize
    \/ Move
    \/ Terminate
    \/ Relaunch

Spec == Init /\ [][Next]_vars

\* Electron dispatches the close it owes to a quit in progress, and ends the
\* process once the message loop was asked to stop.
FairSpec == Spec /\ WF_vars(QuitClose) /\ WF_vars(Terminate)

--------------------------------------------------------------------------
\* Properties.

\* Steps of one process (a relaunch starts another).
SameProcess == run' = run

\* The bounds <<w, h, x, y>> as the options new BrowserWindow is given.
OptionsOf(b) ==
    [width |-> Just(b[1]), height |-> Just(b[2]), x |-> Just(b[3]), y |-> Just(b[4])]

\* The "Recent Apps" submenu the config's list calls for: the names of its
\* first ten entries in order, or the single disabled placeholder.
ExpectedRecent(apps) ==
    IF Len(apps) = 0
    THEN <<[label |-> "No recent apps", enabled |-> FALSE]>>
    ELSE [i \in 1..Min(Len(apps), 10) |-> [label |-> apps[i].name, enabled |-> TRUE]]

\* C1: a process that fails to get the single-instance lock shows the
\* "already running" dialog and exits, and never creates a main window,
\* registers a close handler or starts loading the renderer.
C1_NoWindowWithoutLock ==
    dialog = "already-running" =>
        /\ appState \in {"stopping", "terminated"}
        /\ mainWindow.state = "null"
        /\ ~mainWindow.closeHandler
        /\ ~mainWindow.loading

\* C2: after updateTrayMenu ran with a tray present, the "Recent Apps" submenu
\* has at most ten entries; for a list of n {name} entries it is the first
\* min(n, 10) of them, in order, labelled by name; for an empty or absent list
\* it is the single disabled "No recent apps" entry.
C2_RecentAppsMenu ==
    /\ tray.menu # <<>> => Len(tray.menu[1].recent) <= 10
    /\ last.config # <<>> /\ last.config[1] \in WellFormedConfigs =>
           /\ tray.menu # <<>>
           /\ tray.menu[1].recent = ExpectedRecent(last.config[1].apps)
    /\ last.config # <<>> /\ last.config[1] \in AbsentConfigs \cup UnusableConfigs =>
           /\ tray.menu # <<>>
           /\ tray.menu[1].recent = ExpectedRecent(<<>>)

C2_Witness ==
    /\ last.event = "update-tray"
    /\ last.config # <<>>
    /\ last.config[1] \in WellFormedConfigs
    /\ Len(last.config[1].apps) > 10
    /\ Len(tray.menu[1].recent) = 10

\* C3: whatever the config file holds, updateTrayMenu with a tray present
\* raises no uncaught exception and ends by setting a context menu, with the
\* recent list treated as empty when the config could not be used.
C3_ConfigErrorsCaught ==
    last.config # <<>> =>
        /\ ~last.threw
        /\ tray.menu # <<>>
        /\ last.config[1] \in UnusableConfigs =>
               tray.menu[1].recent = ExpectedRecent(<<>>)

\* C4 as stated: when createTray runs and neither logo file exists, the
\* application shows a dialog and exits instead of creating a tray.
C4_MissingIconExits ==
    last.event = "init-tray" /\ last.icons = <<{}>> =>
        /\ dialog # "none"
        /\ appState \in {"stopping", "terminated"}
        /\ ~tray.exists

\* C4 as amended: when createTray runs and neither logo file exists, the
\* application shows no dialog and keeps running; the tray is created from the
\* empty image the SVG path yields.
C4_MissingIconStillCreatesTray ==
    last.event = "init-tray" /\ last.icons = <<{}>> =>
        /\ tray.exists
        /\ tray.icon = "empty"
        /\ traysCreated = 1
        /\ dialog = "none"
        /\ appState = "running"

C4_Witness ==
    /\ last.event = "init-tray"
    /\ last.icons = <<{}>>
    /\ tray.exists
    /\ tray.menu # <<>>

\* C5: the close that ends a tray "Quit" stores the window's width, height, x
\* and y as they are at that close event, and the next launch creates the main
\* window with exactly those four values.
C5_GeometryRoundTrip ==
    /\ last.event = "close" /\ ~last.prevented =>
           /\ closedAt = mainWindow.bounds
           /\ windowStore.dimensions = <<closedAt[1], closedAt[2]>>
           /\ windowStore.position = <<closedAt[3], closedAt[4]>>
    /\ last.event = "ready" /\ closedAt # <<>> =>
           /\ mainWindow.options = <<OptionsOf(closedAt)>>
           /\ mainWindow.bounds = closedAt

\* A second launch whose window got bounds the first launch did not start with.
C5_Witness ==
    /\ run = 2
    /\ last.event = "ready"
    /\ appState = "running"
    /\ closedAt = <<WINDOW_MIN_WIDTH, WINDOW_MIN_HEIGHT, 40, 25>>
    /\ mainWindow.bounds = closedAt

\* C6: the settings file is read only while the main window is being created
\* and written only while its close event is handled; no tray click, tray
\* menu action, IPC message, second-instance or activate event, nor a quit
\* request, changes it.
C6_StoreReadAtCreateWrittenAtClose ==
    [][ /\ windowStore' # windowStore => last'.event = "close"
        /\ last'.storeAccess = "write" => last'.event = "close"
        /\ last'.storeAccess = "read" =>
               /\ last'.event \in {"ready", "activate"}
               /\ mainWindow.state \in {"null", "destroyed"}
               /\ mainWindow'.state = "shown"
        /\ last'.event \in {"tray-click", "menu-open", "menu-recent", "menu-container",
                            "menu-quit", "message", "update-tray", "init-tray",
                            "second-instance", "quit-request"} =>
               /\ windowStore' = windowStore
               /\ last'.storeAccess = "none"
      ]_vars

C6_Witness ==
    /\ last.event = "close"
    /\ last.storeAccess = "write"
    /\ windowStore.dimensions # <<>>
    /\ run = 1

\* C7: once the tray "Quit" is clicked isQuitting is true and is never reset
\* in that process, the close event that follows is not prevented and stores
\* the geometry, and under fair dispatch the application terminates.
C7_QuitTerminates ==
    /\ [][ /\ last'.event = "menu-quit" => isQuitting' /\ quitPending'
           /\ isQuitting /\ SameProcess => isQuitting'
           /\ isQuitting /\ last'.event = "close" =>
                  /\ ~last'.prevented
                  /\ mainWindow'.state = "destroyed"
                  /\ windowStore' = StoreSetBounds(windowStore, mainWindow.bounds)
         ]_vars
    /\ (quitClicked ~> appState = "terminated")

C7_Witness ==
    /\ quitClicked
    /\ appState = "terminated"
    /\ mainWindow.state = "destroyed"

C9_SingleTray ==
    [][ /\ traysCreated' <= 1
        /\ last'.event = "init-tray" /\ ~tray.exists =>
               tray'.exists /\ traysCreated' = 1
        /\ last'.event = "init-tray" /\ tray.exists =>
               tray' = tray /\ traysCreated' = traysCreated
        /\ last'.event = "update-tray" /\ ~tray.exists =>
               /\ tray' = NullTray
               /\ UNCHANGED <<run, appState, quitPending, isQuitting, mainWindow,
                              windowStore, dialog, traysCreated>>
        /\ last'.event = "update-tray" /\ tray.exists =>
               /\ tray' = [tray EXCEPT !.menu = tray'.menu]
               /\ traysCreated' = traysCreated
      ]_vars

\* A tray whose menu an "update-tray" replaced, and an "init-tray" after it.
C9_Witness ==
    /\ last.event = "init-tray"
    /\ last.icons = <<>>
    /\ traysCreated = 1
    /\ tray.exists
    /\ tray.menu # <<>>
    /\ Len(tray.menu[1].recent) = 10

\* C10: whenever the main window exists and is hidden, a tray exists whose
\* click or menu shows the window.
C10_HiddenWindowHasTray ==
    appState = "running" /\ mainWindow.state = "hidden" =>
        /\ tray.exists
        /\ tray.clickHandler \/ tray.menu # <<>>

====
